---------------------------- MODULE Spec2Model ----------------------------
(***************************************************************************)
(* A model of aio/tools/ng-packages-installer/index.js: the class          *)
(* NgPackagesInstaller and the command line entry point main().            *)
(*                                                                         *)
(* Representation.                                                         *)
(*  - A JavaScript string is a sequence of tokens, so that the empty       *)
(*    string is <<>> and String.prototype.replace can be modelled by what  *)
(*    it does.  "@angular/" is one token.                                  *)
(*  - A JavaScript object used as a map (dependencies, peerDependencies)   *)
(*    is a sequence of <<key, value>> pairs with distinct keys, in         *)
(*    insertion order, which is the order Object.keys enumerates.          *)
(*  - An optional property is <<>> (absent) or <<v>> (present).            *)
(*  - A file's bytes are [fmt, config]: the way the text is laid out and   *)
(*    what JSON.parse makes of it (<<>> when it does not parse).           *)
(***************************************************************************)
EXTENDS Naturals, Sequences, FiniteSets, TLC

VARIABLES
    manifest,               \* bytes of <projectDir>/package.json
    marker,                 \* <<>> or <<bytes>> of node_modules/_local_.json
    dist,                   \* the dist/packages-dist directory
    fatal,                  \* shelljs config.fatal, set by shelljs.set('-e')
    pc,                     \* position of the running command
    force,                  \* this.force of the running command
    packageConfigFile,      \* local of installLocalDependencies (line 68)
    localPackageConfigJson, \* local of installLocalDependencies (line 79)
    thrown,                 \* the exception in flight, "" when there is none
    trace,                  \* the file writes and exec calls of the running command
    warned,                 \* whether the running command printed the warning
    runs,                   \* the commands started so far, with the disk they found
    packageConfig,          \* local of installLocalDependencies (line 69)
    packages,               \* local of installLocalDependencies (line 67)
    dependencies,           \* local of installLocalDependencies (line 71)
    peers,                  \* local of installLocalDependencies (line 71)
    devDependencies,        \* local of installLocalDependencies (line 72)
    devPeers                \* local of installLocalDependencies (line 72)

disk   == <<manifest, marker, dist>>
frame  == <<fatal, pc, force, packageConfigFile, localPackageConfigJson,
            thrown, trace, warned, runs>>
locals == <<packageConfig, packages, dependencies, peers, devDependencies, devPeers>>
vars   == <<disk, frame, locals>>

(***************************************************************************)
(* Bounds of the model.                                                    *)
(***************************************************************************)
MaxDeps    == 2    \* entries of a manifest's dependencies map
MaxDevDeps == 1    \* entries of a manifest's devDependencies map
MaxPeers   == 1    \* entries of a distributable's peerDependencies map
MaxRuns    == 3    \* command line invocations in one behaviour

(***************************************************************************)
(* Program constants.                                                      *)
(***************************************************************************)
PACKAGE_JSON          == "package.json"
ANGULAR_DIST_PACKAGES == "<root>/dist/packages-dist"
ANGULAR_SCOPE         == "@angular/"

(***************************************************************************)
(* JavaScript objects as insertion-ordered maps.                           *)
(***************************************************************************)
EmptyMap == << >>

Range(s) == {s[i] : i \in 1..Len(s)}

\* Object.keys(m)
Keys(m) == [i \in 1..Len(m) |-> m[i][1]]

\* key in m (own property)
Has(m, k) == \E i \in 1..Len(m) : m[i][1] = k

\* m[k], for a key m has
Get(m, k) == m[CHOOSE i \in 1..Len(m) : m[i][1] = k][2]

\* m[k] = v: an existing key keeps its place, a new key goes last
Put(m, k, v) ==
    IF Has(m, k)
    THEN [i \in 1..Len(m) |-> IF m[i][1] = k THEN <<k, v>> ELSE m[i]]
    ELSE Append(m, <<k, v>>)

\* the truthiness of m[k]: undefined and the empty string are falsy
Truthy(m, k) == Has(m, k) /\ Get(m, k) # << >>

\* x || {} for an optional property x
OrEmpty(x) == IF x = << >> THEN EmptyMap ELSE x[1]

\* str.replace(tok, ''): the first occurrence of the token is removed
RECURSIVE Replace(_, _)
Replace(str, tok) ==
    IF str = << >> THEN << >>
    ELSE IF Head(str) = tok THEN Tail(str)
    ELSE <<Head(str)>> \o Replace(Tail(str), tok)

(***************************************************************************)
(* NgPackagesInstaller._collectDependencies, lines 116-134.                *)
(***************************************************************************)
\* line 124 without the key.replace('@angular/', '')
LocalReference_KeepsScope(key) ==
    <<"file:", ANGULAR_DIST_PACKAGES, "/">> \o key

\* line 124: the local reference a substituted entry points at
LocalReference(key) ==
    <<"file:", ANGULAR_DIST_PACKAGES, "/">> \o Replace(key, ANGULAR_SCOPE)

\* lines 127-130 with a peer already collected kept (first writer wins)
RECURSIVE GrabPeers_KeepsFirst(_, _, _, _)
GrabPeers_KeepsFirst(peerDependencies, sourcePeers, keys, pkgs) ==
    IF keys = << >> THEN peerDependencies
    ELSE LET key  == Head(keys)
             next == IF key \in DOMAIN pkgs \/ Has(peerDependencies, key)
                     THEN peerDependencies
                     ELSE Put(peerDependencies, key, Get(sourcePeers, key))
         IN  GrabPeers_KeepsFirst(next, sourcePeers, Tail(keys), pkgs)

\* lines 127-130 without the .filter(key => !packages[key]) of line 129
RECURSIVE GrabPeers_NoFilter(_, _, _, _)
GrabPeers_NoFilter(peerDependencies, sourcePeers, keys, pkgs) ==
    IF keys = << >> THEN peerDependencies
    ELSE GrabPeers_NoFilter(Put(peerDependencies, Head(keys), Get(sourcePeers, Head(keys))),
                            sourcePeers, Tail(keys), pkgs)

\* lines 127-130: the peers of one substituted package, over the keys still
\* to visit; peers that are distributables themselves are filtered out
RECURSIVE GrabPeers(_, _, _, _)
GrabPeers(peerDependencies, sourcePeers, keys, pkgs) ==
    IF keys = << >> THEN peerDependencies
    ELSE LET key  == Head(keys)
             next == IF key \in DOMAIN pkgs
                     THEN peerDependencies
                     ELSE Put(peerDependencies, key, Get(sourcePeers, key))
         IN  GrabPeers(next, sourcePeers, Tail(keys), pkgs)

\* lines 121-131: the body of the forEach, for one key
CollectOne(st, key, pkgs) ==
    IF key \in DOMAIN pkgs
    THEN LET sourcePeers == OrEmpty(pkgs[key].peerDependencies)
         IN  [st EXCEPT
                !.mergedDependencies = Put(@, key, LocalReference(key)),
                !.peerDependencies   = GrabPeers(@, sourcePeers, Keys(sourcePeers), pkgs)]
    ELSE st

RECURSIVE CollectKeys(_, _, _)
CollectKeys(st, keys, pkgs) ==
    IF keys = << >> THEN st
    ELSE CollectKeys(CollectOne(st, Head(keys), pkgs), Tail(keys), pkgs)

\* The record the method ends with: the argument object, and the two objects
\* it returns as [mergedDependencies, peerDependencies].
_collectDependencies(deps, pkgs) ==
    CollectKeys([dependencies       |-> deps,
                 mergedDependencies |-> deps,
                 peerDependencies   |-> EmptyMap],
                Keys(deps), pkgs)

(***************************************************************************)
(* NgPackagesInstaller._assignPeerDependencies, lines 103-114.             *)
(***************************************************************************)
\* lines 106-112: the body of the forEach, for one key
AssignOne(st, key, value) ==
    IF Truthy(st.dependencies, key)
    THEN [st EXCEPT !.dependencies = Put(@, key, value)]
    ELSE [st EXCEPT !.devDependencies = Put(@, key, value)]

RECURSIVE AssignKeys(_, _, _)
AssignKeys(st, peerDependencies, keys) ==
    IF keys = << >> THEN st
    ELSE AssignKeys(AssignOne(st, Head(keys), Get(peerDependencies, Head(keys))),
                    peerDependencies, Tail(keys))

\* The two objects the method mutates, as it leaves them.
_assignPeerDependencies(peerDependencies, deps, devDeps) ==
    AssignKeys([dependencies |-> deps, devDependencies |-> devDeps],
               peerDependencies, Keys(peerDependencies))

(***************************************************************************)
(* Files.  JSON.parse reads the config out of the bytes; JSON.stringify    *)
(* (value, null, 2) lays a config out with two-space indentation, which is *)
(* in general not the layout the manifest was authored with.               *)
(***************************************************************************)
File(fmt, config) == [fmt |-> fmt, config |-> <<config>>]

Parses(file) == file.config # << >>

\* JSON.parse(file), line 69
JSONparse(file) == file.config[1]

\* JSON.stringify(config, null, 2), line 79
JSONstringify(config) == File("indent2", config)

\* lines 77-78
LocalPackageConfig(config, deps, devDeps) ==
    [config EXCEPT !.dependencies    = <<deps>>,
                   !.devDependencies = <<devDeps>>,
                   !.__angular       = <<[local |-> TRUE]>>]

(***************************************************************************)
(* NgPackagesInstaller._getDistPackages, lines 140-154.  The directory is  *)
(* [exists, files]; files maps a path below it (a sequence of segments) to *)
(* what require() makes of the file.                                       *)
(***************************************************************************)
\* line 146: PACKAGE_JSON_REGEX = /^[^/]+\/package\.json$/
MatchesPackageJsonRegex(filePath) ==
    Len(filePath) = 2 /\ filePath[2] = PACKAGE_JSON

\* shelljs.find without its error on a missing path
FindFails_Never(dir) == FALSE

\* line 144: shelljs.find(ANGULAR_DIST_PACKAGES) ends in an error on a path
\* that does not exist, and nothing in lines 140-154 or 64-69 handles it
FindFails(dir) == ~dir.exists

\* lines 147-151: keyed by `@angular/${directory name}`
_getDistPackages(dir) ==
    LET found == {p \in DOMAIN dir.files : MatchesPackageJsonRegex(p)}
    IN  [name \in {<<ANGULAR_SCOPE, p[1]>> : p \in found}
            |-> dir.files[<<name[2], PACKAGE_JSON>>]]

(***************************************************************************)
(* The inputs the model draws from.                                        *)
(***************************************************************************)
Core   == <<ANGULAR_SCOPE, "core">>
Common == <<ANGULAR_SCOPE, "common">>
Rxjs   == <<"rxjs">>

\* the maps with at most n entries, keys from K, values from V
OrderedMaps(K, V, n) ==
    {m \in UNION {[1..len -> K \X V] : len \in 0..n} :
        \A i, j \in 1..Len(m) : m[i][1] = m[j][1] => i = j}

Optional(S) == {<< >>} \cup {<<x>> : x \in S}

\* "" is a range a manifest may state (any version)
ManifestRanges == {<< >>, <<"^1.0.0">>}
PeerRanges     == {<<"^2.0.0">>, <<"^3.0.0">>}

Descriptors(peerNames) ==
    [peerDependencies : Optional(OrderedMaps(peerNames, PeerRanges, MaxPeers))]

\* the per-distributable package.json files a build may have left
DistFiles ==
    {f \in UNION {[S -> Descriptors({Rxjs, Core})] :
                    S \in SUBSET {<<"core", PACKAGE_JSON>>, <<"common", PACKAGE_JSON>>}} :
        <<"core", PACKAGE_JSON>> \in DOMAIN f =>
            \A e \in Range(OrEmpty(f[<<"core", PACKAGE_JSON>>].peerDependencies)) :
                e[1] # Core}

Configs(depMaps, devMaps, angular) ==
    [dependencies : depMaps, devDependencies : devMaps, __angular : angular]

(***************************************************************************)
(* installLocalDependencies, lines 71-79, line by line.  This              *)
(* specification starts where lines 65-69 have run: the marker was absent, *)
(* the distributables were scanned and the manifest was read and parsed.   *)
(***************************************************************************)
SubstInit ==
    /\ \E config \in Configs(
                Optional(OrderedMaps({Core, Common, Rxjs}, ManifestRanges, MaxDeps)),
                Optional(OrderedMaps({Core, Common, Rxjs}, {<<"^1.0.0">>}, MaxDevDeps)),
                {<< >>}) :
          /\ packageConfig = config
          /\ manifest = File("authored", config)
    /\ \E files \in DistFiles : dist = [exists |-> TRUE, files |-> files]
    /\ packages = _getDistPackages(dist)
    /\ marker = << >>
    /\ fatal = TRUE
    /\ pc = "L71"
    /\ force = FALSE
    /\ packageConfigFile = <<manifest>>
    /\ localPackageConfigJson = << >>
    /\ thrown = ""
    /\ trace = << >>
    /\ warned = FALSE
    /\ runs = <<[cmd |-> "overwrite", force |-> FALSE,
                 manifest |-> manifest, marker |-> marker]>>
    /\ dependencies = EmptyMap
    /\ peers = EmptyMap
    /\ devDependencies = EmptyMap
    /\ devPeers = EmptyMap

\* the argument of _collectDependencies is the manifest's own object, when
\* it has one
Aliased(optional, object) == IF optional = << >> THEN << >> ELSE <<object>>

\* line 71
CollectDeps ==
    /\ pc = "L71"
    /\ LET r == _collectDependencies(OrEmpty(packageConfig.dependencies), packages)
       IN  /\ dependencies' = r.mergedDependencies
           /\ peers' = r.peerDependencies
           /\ packageConfig' = [packageConfig EXCEPT
                  !.dependencies = Aliased(@, r.dependencies)]
    /\ pc' = "L72"
    /\ UNCHANGED <<disk, fatal, force, packageConfigFile, localPackageConfigJson,
                   thrown, trace, warned, runs, packages, devDependencies, devPeers>>

\* line 72
CollectDevDeps ==
    /\ pc = "L72"
    /\ LET r == _collectDependencies(OrEmpty(packageConfig.devDependencies), packages)
       IN  /\ devDependencies' = r.mergedDependencies
           /\ devPeers' = r.peerDependencies
           /\ packageConfig' = [packageConfig EXCEPT
                  !.devDependencies = Aliased(@, r.dependencies)]
    /\ pc' = "L74"
    /\ UNCHANGED <<disk, fatal, force, packageConfigFile, localPackageConfigJson,
                   thrown, trace, warned, runs, packages, dependencies, peers>>

\* line 74
AssignPeers ==
    /\ pc = "L74"
    /\ LET r == _assignPeerDependencies(peers, dependencies, devDependencies)
       IN  /\ dependencies' = r.dependencies
           /\ devDependencies' = r.devDependencies
    /\ pc' = "L75"
    /\ UNCHANGED <<disk, fatal, force, packageConfigFile, localPackageConfigJson,
                   thrown, trace, warned, runs, packageConfig, packages, peers, devPeers>>

\* line 75
AssignDevPeers ==
    /\ pc = "L75"
    /\ LET r == _assignPeerDependencies(devPeers, dependencies, devDependencies)
       IN  /\ dependencies' = r.dependencies
           /\ devDependencies' = r.devDependencies
    /\ pc' = "L77"
    /\ UNCHANGED <<disk, fatal, force, packageConfigFile, localPackageConfigJson,
                   thrown, trace, warned, runs, packageConfig, packages, peers, devPeers>>

\* lines 77-79
StringifyLocalConfig ==
    /\ pc = "L77"
    /\ localPackageConfigJson' =
          <<JSONstringify(LocalPackageConfig(packageConfig, dependencies, devDependencies))>>
    /\ pc' = "L81"
    /\ UNCHANGED <<disk, fatal, force, packageConfigFile, thrown, trace, warned,
                   runs, locals>>

(***************************************************************************)
(* The commands.  main() makes shelljs errors fatal and dispatches to one  *)
(* method of a new NgPackagesInstaller; a command that ends is back at     *)
(* "idle", with thrown naming the error that ended it, if one did.         *)
(***************************************************************************)
Event(op, code, written) ==
    [op |-> op, code |-> code, manifest |-> manifest, written |-> written]

\* NgPackagesInstaller._checkLocalMarker, lines 200-203
_checkLocalMarker == marker # << >>

\* line 65, with the marker missing
ShouldInstall_MarkerIgnored(markerExists, forced) == TRUE

\* line 65
ShouldInstall(markerExists, forced) == markerExists # TRUE \/ forced

\* checkDependencies without the test of line 54
WarningDue_Always(markerExists) == TRUE

\* line 54
WarningDue(markerExists) == markerExists

\* shelljs.exec without shelljs.set('-e'): a failed command is not thrown
ExecThrows_Never(code, isFatal) == FALSE

\* shelljs.exec, lines 159 and 212: a non-zero exit is thrown when config.fatal
ExecThrows(code, isFatal) == code # 0 /\ isFatal

\* a try without the finally of lines 86-89: the error leaves the method
OnThrow_NoFinally == "idle"

\* lines 81, 86: an error in the try block runs the finally block
OnThrow == "L88"

\* line 88 writing the parsed manifest serialised again
RestoredBytes_Reserialised(file, config) == JSONstringify(config)

\* line 88: the bytes read at line 68 are written back
RestoredBytes(file, config) == file

\* `yarn install` reads package.json and never writes it.  It leaves a clean
\* node_modules when it succeeds (line 95: it deletes the marker); a failed
\* install may or may not have got that far.
MarkerAfterInstall(code) ==
    IF code = 0 THEN {<< >>} ELSE {<< >>, marker}

\* lines 211-235
main ==
    /\ pc = "idle"
    /\ Len(runs) < MaxRuns
    /\ \E cmd \in {"overwrite", "restore", "check"} :
       \E forced \in IF cmd = "overwrite" THEN BOOLEAN ELSE {FALSE} :
          /\ pc' = CASE cmd = "overwrite" -> "L65"
                      [] cmd = "restore"   -> "L98"
                      [] cmd = "check"     -> "L54"
          /\ force' = forced
          /\ runs' = Append(runs, [cmd |-> cmd, force |-> forced,
                                   manifest |-> manifest, marker |-> marker])
    /\ fatal' = TRUE
    /\ thrown' = ""
    /\ trace' = << >>
    /\ warned' = FALSE
    /\ packageConfigFile' = << >>
    /\ localPackageConfigJson' = << >>
    /\ packageConfig' = << >>
    /\ packages' = << >>
    /\ dependencies' = EmptyMap
    /\ peers' = EmptyMap
    /\ devDependencies' = EmptyMap
    /\ devPeers' = EmptyMap
    /\ UNCHANGED disk

\* checkDependencies, lines 53-57
checkDependencies ==
    /\ pc = "L54"
    /\ warned' = WarningDue(_checkLocalMarker)
    /\ pc' = "idle"
    /\ UNCHANGED <<disk, fatal, force, packageConfigFile, localPackageConfigJson,
                   thrown, trace, runs, locals>>

\* line 65, when the marker exists and the run is not forced
SkipInstall ==
    /\ pc = "L65"
    /\ ~ShouldInstall(_checkLocalMarker, force)
    /\ pc' = "idle"
    /\ UNCHANGED <<disk, fatal, force, packageConfigFile, localPackageConfigJson,
                   thrown, trace, warned, runs, locals>>

\* lines 65-67
ScanDistPackages ==
    /\ pc = "L65"
    /\ ShouldInstall(_checkLocalMarker, force)
    /\ IF FindFails(dist)
       THEN /\ thrown' = "find"
            /\ pc' = "idle"
            /\ UNCHANGED packages
       ELSE /\ packages' = _getDistPackages(dist)
            /\ pc' = "L68"
            /\ UNCHANGED thrown
    /\ UNCHANGED <<disk, fatal, force, packageConfigFile, localPackageConfigJson,
                   trace, warned, runs, packageConfig, dependencies, peers,
                   devDependencies, devPeers>>

\* lines 68-69
ReadManifest ==
    /\ pc = "L68"
    /\ packageConfigFile' = <<manifest>>
    /\ IF Parses(manifest)
       THEN /\ packageConfig' = JSONparse(manifest)
            /\ pc' = "L71"
            /\ UNCHANGED thrown
       ELSE /\ thrown' = "SyntaxError"
            /\ pc' = "idle"
            /\ UNCHANGED packageConfig
    /\ UNCHANGED <<disk, fatal, force, localPackageConfigJson, trace, warned, runs,
                   packages, dependencies, peers, devDependencies, devPeers>>

\* lines 82-83; the manifest was read at line 68 and is taken to be writable
WriteLocalManifest ==
    /\ pc = "L81"
    /\ manifest' = localPackageConfigJson[1]
    /\ trace' = Append(trace, Event("writeManifest", 0, localPackageConfigJson))
    /\ pc' = "L84"
    /\ UNCHANGED <<marker, dist, fatal, force, packageConfigFile,
                   localPackageConfigJson, thrown, warned, runs, locals>>

\* line 84: _installDeps('--no-lockfile', '--check-files'), lines 156-160
InstallLocalDeps ==
    /\ pc = "L84"
    /\ \E code \in {0, 1} :
          /\ marker' \in MarkerAfterInstall(code)
          /\ trace' = Append(trace, Event("exec", code, << >>))
          /\ IF ExecThrows(code, fatal)
             THEN thrown' = "exec" /\ pc' = OnThrow
             ELSE thrown' = thrown /\ pc' = "L85"
    /\ UNCHANGED <<manifest, dist, fatal, force, packageConfigFile,
                   localPackageConfigJson, warned, runs, locals>>

\* line 85: _setLocalMarker, lines 205-208; the write may fail
SetLocalMarker ==
    /\ pc = "L85"
    /\ \/ /\ marker' = localPackageConfigJson
          /\ trace' = Append(trace, Event("writeMarker", 0, localPackageConfigJson))
          /\ pc' = "L88"
          /\ UNCHANGED thrown
       \/ /\ thrown' = "writeFileSync"
          /\ pc' = OnThrow
          /\ UNCHANGED <<marker, trace>>
    /\ UNCHANGED <<manifest, dist, fatal, force, packageConfigFile,
                   localPackageConfigJson, warned, runs, locals>>

\* lines 86-89: the finally block; an error in flight goes on to the caller
RestoreManifest ==
    /\ pc = "L88"
    /\ manifest' = RestoredBytes(packageConfigFile[1], packageConfig)
    /\ trace' = Append(trace, Event("writeManifest", 0,
                                    <<RestoredBytes(packageConfigFile[1], packageConfig)>>))
    /\ pc' = "idle"
    /\ UNCHANGED <<marker, dist, fatal, force, packageConfigFile,
                   localPackageConfigJson, thrown, warned, runs, locals>>

\* restoreNpmDependencies, lines 97-99: _installDeps('--check-files')
restoreNpmDependencies ==
    /\ pc = "L98"
    /\ \E code \in {0, 1} :
          /\ marker' \in MarkerAfterInstall(code)
          /\ trace' = Append(trace, Event("exec", code, << >>))
          /\ thrown' = IF ExecThrows(code, fatal) THEN "exec" ELSE thrown
    /\ pc' = "idle"
    /\ UNCHANGED <<manifest, dist, fatal, force, packageConfigFile,
                   localPackageConfigJson, warned, runs, locals>>

\* the manifests a project may hold
ToggleManifests ==
    {File("authored", c) :
        c \in Configs(Optional({<<<<Core, <<"^1.0.0">>>>>>}),
                      Optional({<<<<Rxjs, <<"^1.0.0">>>>>>}),
                      {<< >>})}
    \cup {File("indent2", [dependencies |-> <<EmptyMap>>, devDependencies |-> <<EmptyMap>>,
                           __angular |-> <<[local |-> TRUE]>>])}
    \cup {[fmt |-> "authored", config |-> << >>]}

\* the distributables a build may have left: none, no directory, a
\* directory without a top-level package, one package
ToggleDists ==
    LET noPeers == [peerDependencies |-> << >>]
        nested  == <<"core", "testing", PACKAGE_JSON>>
        readme  == <<"README.md">>
        core    == <<"core", PACKAGE_JSON>>
    IN  {[exists |-> FALSE, files |-> << >>],
         [exists |-> TRUE,  files |-> << >>],
         [exists |-> TRUE,  files |-> [p \in {nested, readme} |-> noPeers]],
         [exists |-> TRUE,  files |-> [p \in {nested, readme, core} |->
              IF p = core
              THEN [peerDependencies |-> <<<<<<Rxjs, <<"^2.0.0">>>>>>>>]
              ELSE noPeers]]}

\* a marker an earlier local install left behind
StaleMarker ==
    JSONstringify(LocalPackageConfig(
        [dependencies |-> << >>, devDependencies |-> << >>, __angular |-> << >>],
        EmptyMap, EmptyMap))

Init ==
    /\ manifest \in ToggleManifests
    /\ marker \in Optional({StaleMarker})
    /\ dist \in ToggleDists
    /\ fatal = FALSE
    /\ pc = "idle"
    /\ force = FALSE
    /\ packageConfigFile = << >>
    /\ localPackageConfigJson = << >>
    /\ thrown = ""
    /\ trace = << >>
    /\ warned = FALSE
    /\ runs = << >>
    /\ packageConfig = << >>
    /\ packages = << >>
    /\ dependencies = EmptyMap
    /\ peers = EmptyMap
    /\ devDependencies = EmptyMap
    /\ devPeers = EmptyMap

Next ==
    \/ main
    \/ checkDependencies
    \/ SkipInstall
    \/ ScanDistPackages
    \/ ReadManifest
    \/ CollectDeps
    \/ CollectDevDeps
    \/ AssignPeers
    \/ AssignDevPeers
    \/ StringifyLocalConfig
    \/ WriteLocalManifest
    \/ InstallLocalDeps
    \/ SetLocalMarker
    \/ RestoreManifest
    \/ restoreNpmDependencies

Spec == Init /\ [][Next]_vars

SubstNext ==
    \/ CollectDeps
    \/ CollectDevDeps
    \/ AssignPeers
    \/ AssignDevPeers
    \/ StringifyLocalConfig

SubstSpec == SubstInit /\ [][SubstNext]_vars

(***************************************************************************)
(* Properties of the substitution, checked under SubstSpec.                *)
(***************************************************************************)
\* the manifest as it was parsed; the disk still holds it at lines 71-79
Original == JSONparse(manifest)

PeersOf(name) == OrEmpty(packages[name].peerDependencies)

Substituted(D) == {i \in 1..Len(D) : D[i][1] \in DOMAIN packages}

\* 'file:<dist dir>/<name without @angular/>'
FileReference(name) == <<"file:", ANGULAR_DIST_PACKAGES, "/", name[2]>>

IsSubstitutionOf(merged, D) ==
    /\ Keys(merged) = Keys(D)
    /\ \A i \in 1..Len(D) :
          IF D[i][1] \in DOMAIN packages
          THEN /\ D[i][1][1] = ANGULAR_SCOPE
               /\ merged[i][2] = FileReference(D[i][1])
          ELSE merged[i][2] = D[i][2]

\* C6: the map _collectDependencies(D, C) returns has exactly the keys of D;
\* a key of D that is in C maps to its local reference and every other key to
\* the range it has in D; D itself is left as it was.
C6_CollectSubstitutes ==
    /\ pc \in {"L72", "L74"} =>
          /\ IsSubstitutionOf(dependencies, OrEmpty(Original.dependencies))
          /\ packageConfig.dependencies = Original.dependencies
    /\ pc = "L74" =>
          /\ IsSubstitutionOf(devDependencies, OrEmpty(Original.devDependencies))
          /\ packageConfig.devDependencies = Original.devDependencies

C6_Witness ==
    /\ pc = "L74"
    /\ \E i, j \in 1..Len(OrEmpty(Original.dependencies)) :
          /\ OrEmpty(Original.dependencies)[i][1] \in DOMAIN packages
          /\ OrEmpty(Original.dependencies)[j][1] \notin DOMAIN packages
    /\ Substituted(OrEmpty(Original.devDependencies)) # {}
    /\ dependencies # OrEmpty(Original.dependencies)

Declaring(D, k) == {i \in Substituted(D) : Has(PeersOf(D[i][1]), k)}

IsPeerSetOf(P, D) ==
    LET declared == UNION {Range(Keys(PeersOf(D[i][1]))) : i \in Substituted(D)}
        names    == declared \ DOMAIN packages
    IN  /\ Range(Keys(P)) = names
        /\ \A i, j \in 1..Len(P) : P[i][1] = P[j][1] => i = j
        /\ \A k \in names :
              LET last == CHOOSE i \in Declaring(D, k) :
                              \A j \in Declaring(D, k) : j <= i
              IN  Get(P, k) = Get(PeersOf(D[last][1]), k)

\* C7: the peer set _collectDependencies(D, C) returns has as keys exactly the
\* peer names declared by a package of C that is a key of D, less the names
\* in C; each once, with the range declared by the package last in D's order.
C7_PeerSet ==
    /\ pc \in {"L72", "L74"} => IsPeerSetOf(peers, OrEmpty(Original.dependencies))
    /\ pc = "L74" => IsPeerSetOf(devPeers, OrEmpty(Original.devDependencies))

\* two substituted packages declare the same peer with different ranges
C7_Witness ==
    /\ pc = "L74"
    /\ LET D == OrEmpty(Original.dependencies)
       IN  \E k \in Range(Keys(peers)) : \E i, j \in Declaring(D, k) :
              /\ i < j
              /\ Get(PeersOf(D[i][1]), k) # Get(PeersOf(D[j][1]), k)
              /\ Get(peers, k) = Get(PeersOf(D[j][1]), k)

\* the merge policy as the claim states it, by the existence of the key
PolicyByKey(P, deps, devDeps, depsAfter, devDepsAfter) ==
    \A k \in Range(Keys(P)) :
        IF Has(deps, k)
        THEN /\ Has(depsAfter, k) /\ Get(depsAfter, k) = Get(P, k)
             /\ Has(devDepsAfter, k) = Has(devDeps, k)
             /\ Has(devDeps, k) => Get(devDepsAfter, k) = Get(devDeps, k)
        ELSE Has(devDepsAfter, k) /\ Get(devDepsAfter, k) = Get(P, k)

FinalRange(k) ==
    IF Has(dependencies, k) THEN Get(dependencies, k) ELSE Get(devDependencies, k)

\* C8: a collected peer k with range v overwrites dependencies[k] when k is
\* a key of dependencies (devDependencies is then not touched for k), and is
\* set in devDependencies otherwise; the peers of dependencies are merged
\* first, those of devDependencies second, so the latter's range is final.
C8_PolicyByKey ==
    [][/\ pc = "L74" =>
            PolicyByKey(peers, dependencies, devDependencies,
                        dependencies', devDependencies')
       /\ pc = "L75" =>
            PolicyByKey(devPeers, dependencies, devDependencies,
                        dependencies', devDependencies')
       /\ pc' = "L77" =>
            \A k \in Range(Keys(peers')) \cap Range(Keys(devPeers')) :
                FinalRange(k)' = Get(devPeers', k)]_vars

\* what the code does: line 106 tests the value, not the key
PolicyByValue(P, deps, devDeps, depsAfter, devDepsAfter) ==
    \A k \in Range(Keys(P)) :
        IF Truthy(deps, k)
        THEN /\ Get(depsAfter, k) = Get(P, k)
             /\ Has(devDepsAfter, k) = Has(devDeps, k)
             /\ Has(devDeps, k) => Get(devDepsAfter, k) = Get(devDeps, k)
        ELSE /\ Has(devDepsAfter, k) /\ Get(devDepsAfter, k) = Get(P, k)
             /\ Has(depsAfter, k) = Has(deps, k)
             /\ Has(deps, k) => Get(depsAfter, k) = Get(deps, k)

C8_CodePolicy ==
    [][/\ pc = "L74" =>
            PolicyByValue(peers, dependencies, devDependencies,
                          dependencies', devDependencies')
       /\ pc = "L75" =>
            PolicyByValue(devPeers, dependencies, devDependencies,
                          dependencies', devDependencies')]_vars

StillLocal(merged, D) ==
    \A k \in Range(Keys(D)) \cap DOMAIN packages :
        Has(merged, k) /\ Get(merged, k) = FileReference(k)

\* C10: after both _assignPeerDependencies passes, and in the rewritten
\* manifest, every key of the original dependencies or devDependencies that
\* is a distributable still maps to its local reference in its own map.
C10_SubstitutionKept ==
    /\ pc \in {"L77", "L81"} =>
          /\ StillLocal(dependencies, OrEmpty(Original.dependencies))
          /\ StillLocal(devDependencies, OrEmpty(Original.devDependencies))
    /\ pc = "L81" =>
          LET local == JSONparse(localPackageConfigJson[1])
          IN  /\ StillLocal(OrEmpty(local.dependencies), OrEmpty(Original.dependencies))
              /\ StillLocal(OrEmpty(local.devDependencies), OrEmpty(Original.devDependencies))

\* a substituted package declares another substituted package as a peer,
\* and peers were merged into both maps
C10_Witness ==
    /\ pc = "L81"
    /\ LET D == OrEmpty(Original.dependencies) \o OrEmpty(Original.devDependencies)
       IN  \E i, j \in Substituted(D) : Has(PeersOf(D[i][1]), D[j][1])
    /\ peers # EmptyMap
    /\ devPeers # EmptyMap

(***************************************************************************)
(* Properties of the commands, checked under Spec.                         *)
(***************************************************************************)
Last == runs[Len(runs)]

\* the command `cmd` has run and ended
Ended(cmd) == pc = "idle" /\ runs # << >> /\ Last.cmd = cmd

Did(op) == {i \in 1..Len(trace) : trace[i].op = op}

\* the rewritten manifest was written to disk in this run
WroteLocalManifest ==
    \E i \in Did("writeManifest") :
        trace[i].written = localPackageConfigJson /\ localPackageConfigJson # << >>

\* C1: when installLocalDependencies has written the rewritten manifest, the
\* manifest on disk is the original again when the operation ends: after a
\* successful install, a failed install and a failed write of the marker.
C1_ManifestRestored ==
    Ended("overwrite") /\ WroteLocalManifest => manifest = Last.manifest

\* the installer failed after a manifest that differs from the original was
\* written
C1_Witness ==
    /\ Ended("overwrite")
    /\ WroteLocalManifest
    /\ thrown = "exec"
    /\ localPackageConfigJson[1] # Last.manifest

\* C2: install-local followed by restore leaves the manifest on disk equal,
\* byte for byte, to what it was before install-local started.
C2_RoundTrip ==
    \A n \in 2..Len(runs) :
        /\ pc = "idle"
        /\ n = Len(runs)
        /\ runs[n - 1].cmd = "overwrite"
        /\ runs[n].cmd = "restore"
        => manifest = runs[n - 1].manifest

\* a forced install over an existing marker wrote a new marker, and restore
\* then removed it
C2_Witness ==
    /\ Ended("restore")
    /\ Len(runs) >= 2
    /\ runs[Len(runs) - 1].cmd = "overwrite"
    /\ runs[Len(runs) - 1].force
    /\ runs[Len(runs) - 1].marker # << >>
    /\ Last.marker \notin {<< >>, runs[Len(runs) - 1].marker}
    /\ marker = << >>
    /\ Last.marker[1] # manifest

\* C3: with the marker present and force not set, installLocalDependencies
\* writes no file and invokes no installer; marker and manifest are as they
\* were.
C3_NoOpWhenLocal ==
    Ended("overwrite") /\ ~Last.force /\ Last.marker # << >> =>
        /\ trace = << >>
        /\ manifest = Last.manifest
        /\ marker = Last.marker
        /\ thrown = ""

\* install-local ran twice without force: the first wrote the marker
C3_Witness ==
    /\ Ended("overwrite")
    /\ Len(runs) >= 2
    /\ runs[Len(runs) - 1].cmd = "overwrite"
    /\ runs[Len(runs) - 1].marker = << >>
    /\ ~Last.force
    /\ Last.marker # << >>

\* C4: the marker is written only after the installer invocation before it
\* succeeded, never when the installer failed; what is written is the fully
\* substituted manifest that was on disk during the install.
C4_MarkerAfterInstall ==
    runs # << >> /\ Last.cmd = "overwrite" =>
        /\ \A i \in Did("writeMarker") :
              /\ i > 1
              /\ trace[i - 1].op = "exec"
              /\ trace[i - 1].code = 0
              /\ trace[i].written = <<trace[i - 1].manifest>>
              /\ trace[i].written = localPackageConfigJson
              /\ LET written  == JSONparse(trace[i].written[1])
                     original == JSONparse(Last.manifest)
                 IN  /\ written.__angular = <<[local |-> TRUE]>>
                     /\ StillLocal(OrEmpty(written.dependencies),
                                   OrEmpty(original.dependencies))
                     /\ StillLocal(OrEmpty(written.devDependencies),
                                   OrEmpty(original.devDependencies))
        /\ (\E i \in Did("exec") : trace[i].code # 0) => Did("writeMarker") = {}

\* a local install succeeded and the marker holds a manifest in which a
\* dependency was substituted
C4_Witness ==
    /\ Ended("overwrite")
    /\ Did("writeMarker") # {}
    /\ marker = localPackageConfigJson
    /\ JSONparse(marker[1]).dependencies # JSONparse(Last.manifest).dependencies
    /\ packages # << >>

\* C5: checkDependencies warns exactly when the marker exists, and leaves
\* the manifest and the marker as they were and invokes no installer.
C5_CheckWarns ==
    Ended("check") =>
        /\ warned = (Last.marker # << >>)
        /\ manifest = Last.manifest
        /\ marker = Last.marker
        /\ trace = << >>

\* a check after a local install that wrote the marker
C5_Witness ==
    /\ Ended("check")
    /\ warned
    /\ Len(runs) >= 2
    /\ runs[Len(runs) - 1].cmd = "overwrite"
    /\ runs[Len(runs) - 1].marker = << >>

\* install-local got past line 65 and the manifest parses
Attempted ==
    /\ Ended("overwrite")
    /\ Last.marker = << >> \/ Last.force
    /\ Parses(Last.manifest)

NoTopLevelPackage ==
    \A p \in DOMAIN dist.files : ~(Len(p) = 2 /\ p[2] = "package.json")

NothingSubstituted ==
    /\ packages = << >>
    /\ dependencies = OrEmpty(JSONparse(Last.manifest).dependencies)
    /\ devDependencies = OrEmpty(JSONparse(Last.manifest).devDependencies)
    /\ peers = EmptyMap
    /\ devPeers = EmptyMap

\* C9 as stated: a missing distributable directory, or a scan that finds no
\* package, is no error for install-local; the catalog is empty, nothing is
\* substituted, no peer is collected, and the install step is reached.
C9_MissingDirIsNoError ==
    Attempted /\ (~dist.exists \/ NoTopLevelPackage) =>
        /\ thrown # "find"
        /\ NothingSubstituted
        /\ Did("exec") # {}

\* C9 as amended: a scan of an existing distributable directory that finds
\* no package is no error for install-local (empty catalog, nothing
\* substituted, no peer collected, the install step is reached); a missing
\* directory ends install-local in the scan, before the manifest is read or
\* written and before the installer is invoked.
C9_EmptyScanIsNoError ==
    /\ Attempted /\ dist.exists /\ NoTopLevelPackage =>
          /\ thrown # "find"
          /\ NothingSubstituted
          /\ Did("exec") # {}
    /\ Attempted /\ ~dist.exists =>
          /\ thrown = "find"
          /\ trace = << >>
          /\ packageConfigFile = << >>
          /\ manifest = Last.manifest
          /\ marker = Last.marker

\* a directory that holds files but no top-level package, and a manifest
\* that names a distributable: the install ran and the marker was written
C9_Witness ==
    /\ Attempted
    /\ dist.exists
    /\ NoTopLevelPackage
    /\ DOMAIN dist.files # {}
    /\ Has(dependencies, Core)
    /\ Did("writeMarker") # {}

=============================================================================
